---- MODULE Spec2Model ----
(***************************************************************************)
(* Model of Telegram/SourceFiles/lottie/lottie_animation.cpp:              *)
(* the content loader (UnpackGzip), the decode initializer (the two Init   *)
(* overloads) and the Animation controller (background initialization,     *)
(* renderer pool registration and the frame pacing loop).                  *)
(***************************************************************************)
EXTENDS Integers, Sequences, FiniteSets, TLC

(***************************************************************************)
(* Bounds of the model.                                                    *)
(***************************************************************************)
\* kMaxFileSize of lottie_common.h, scaled down to a few bytes.
kMaxFileSize == 3
\* The clock crl::now() runs over 0..MaxTime.
MaxTime == 3
\* Frames the renderer produces for one animation.
MaxFrames == 2
\* Distance between the positions of two consecutive frames.
FrameDuration == 1

\* The "unknown" sentinel of crl::time values.
kTimeUnknown == -1

\* The controllers of the model.
Animations == {1, 2}

(***************************************************************************)
(* Bytes.  A content is a sequence of bytes; the gzip format is modelled   *)
(* by five kinds of byte: "G" the gzip header, "a" a stored byte (inflates *)
(* to itself), "D" a back-reference (inflates to two bytes), "E" the       *)
(* stream trailer, and "x" a byte that is no valid code.                   *)
(***************************************************************************)
Bytes == {"G", "a", "D", "E", "x"}

Rep(n, b) == [i \in 1..n |-> b]

Expand(b) == IF b = "D" THEN <<"a", "a">> ELSE <<"a">>

Take(s, n) == IF n >= Len(s) THEN s ELSE SubSeq(s, 1, n)

\* inflate(&stream, Z_NO_FLUSH) after the header: consumes input from
\* position i on, appends to out, stops when the input is exhausted (Z_OK),
\* the output buffer of availOut bytes is full (Z_OK, avail_out = 0), the
\* trailer is read (Z_STREAM_END) or a byte is no valid code (Z_DATA_ERROR).
RECURSIVE InflateBody(_, _, _, _)
InflateBody(bytes, i, out, availOut) ==
    IF Len(out) >= availOut THEN [res |-> "Z_OK", out |-> out]
    ELSE IF i > Len(bytes) THEN [res |-> "Z_OK", out |-> out]
    ELSE IF bytes[i] = "E" THEN [res |-> "Z_STREAM_END", out |-> out]
    ELSE IF bytes[i] \notin {"a", "D"} THEN [res |-> "Z_DATA_ERROR", out |-> out]
    ELSE InflateBody(bytes, i + 1,
                     Take(out \o Expand(bytes[i]), availOut), availOut)

\* One call of inflate on the whole input with an output buffer of availOut
\* bytes: no input at all makes no progress (Z_BUF_ERROR), input that does
\* not start with the gzip header is a data error.
inflate(bytes, availOut) ==
    IF Len(bytes) = 0 THEN [res |-> "Z_BUF_ERROR", out |-> <<>>]
    ELSE IF bytes[1] # "G" THEN [res |-> "Z_DATA_ERROR", out |-> <<>>]
    ELSE InflateBody(bytes, 2, <<>>, availOut)

\* UnpackGzip returning the scratch buffer even when the output filled it.
UnpackGzipFullBuffer(bytes, initOk) ==
    IF ~initOk THEN bytes
    ELSE LET size == kMaxFileSize + 1
             r == inflate(bytes, size)
         IN  IF r.res # "Z_OK" /\ r.res # "Z_STREAM_END" THEN bytes
             ELSE r.out

\* UnpackGzip(bytes); initOk is the outcome of inflateInit2 (res = Z_OK).
UnpackGzip(bytes, initOk) ==
    IF ~initOk THEN bytes
    ELSE LET size == kMaxFileSize + 1
             r == inflate(bytes, size)
             avail_out == size - Len(r.out)
         IN  IF r.res # "Z_OK" /\ r.res # "Z_STREAM_END" THEN bytes
             ELSE IF avail_out = 0 THEN bytes
             ELSE r.out

(***************************************************************************)
(* The decode initializer.                                                 *)
(***************************************************************************)
NoError == "nullopt"

\* ContentError with the limit off by one.
ContentErrorOffByOne(content) ==
    IF Len(content) > kMaxFileSize + 1 THEN "ParseFailed" ELSE NoError

ContentError(content) ==
    IF Len(content) > kMaxFileSize THEN "ParseFailed" ELSE NoError

\* QSize::isEmpty()
isEmpty(size) == size[1] < 1 \/ size[2] < 1

\* Information values a Shared Playback State may report.
FrameRates == {-1, 0, 1}
FramesCounts == {-1, 0, 1}
Sizes == {<<0, 0>>, <<1, 1>>, <<-1, 1>>}
Informations ==
    [frameRate : FrameRates, framesCount : FramesCounts, size : Sizes]

\* What rlottie::Animation::loadFromData may return: no handle, or a handle
\* to a document with some information.
NoAnimation == [null |-> TRUE]
Handle(information) == [null |-> FALSE, information |-> information]
LibOutcomes == {NoAnimation} \cup {Handle(i) : i \in Informations}

\* What the Cache built from the cached bytes may report.
NoCache == [null |-> TRUE]
CacheValues ==
    {[null |-> FALSE, framesCount |-> 0, framesReady |-> 0,
      information |-> [frameRate |-> 0, framesCount |-> 0, size |-> <<0, 0>>]]}
    \cup
    {[null |-> FALSE, framesCount |-> i.framesCount, framesReady |-> r,
      information |-> i] :
        i \in {j \in Informations : j.framesCount > 0},
        r \in 0..1}

\* The frame requests of the model.
FrameRequests == {"r0", "r1"}

\* SharedState(animation, request) and SharedState(content, animation, cache,
\* request): the information is the parsed document's when there is one and
\* the cache's otherwise; the clock is not started, the first frame is the
\* one painted at the start and frame number 1 is the next to display.
SharedState(animation, cache, request) ==
    [information |-> IF animation.null THEN cache.information
                     ELSE animation.information,
     animation |-> ~animation.null,
     cache |-> ~cache.null,
     request |-> request,
     started |-> kTimeUnknown,
     displayed |-> kTimeUnknown,
     frameIndex |-> 1,
     frameReady |-> FALSE]

Failure(error) == [tag |-> "error", error |-> error]
Success(state) == [tag |-> "state", state |-> state]

CheckSharedState(state) ==
    LET information == state.information
    IN  IF information.frameRate = 0
           \/ information.framesCount <= 0
           \/ isEmpty(information.size)
        THEN Failure("NotSupported")
        ELSE Success(state)

\* details::CreateFromContent(content): lib is what loadFromData returns for
\* the unpacked string.  Besides the handle the result records the string
\* handed to the decode library and whether the size assertion held.
CreateFromContent(content, initOk, lib) ==
    LET string == UnpackGzip(content, initOk)
    IN  [animation |-> lib,
         string |-> string,
         assertion |-> Len(string) <= kMaxFileSize]

\* The outcome of an Init overload: the InitData it returns, the calls of
\* the decode library it made (the strings passed to loadFromData, with the
\* outcome of the assertion before each) and whether it built a Cache.
Outcome(data, calls, cache) ==
    [data |-> data, libCalls |-> calls, cacheBuilt |-> cache]

LibCall(created) ==
    [string |-> created.string, assertion |-> created.assertion]

\* Init(content, request)
InitPlain(content, request, initOk, lib) ==
    IF ContentError(content) # NoError
    THEN Outcome(Failure(ContentError(content)), <<>>, FALSE)
    ELSE LET created == CreateFromContent(content, initOk, lib)
             animation == created.animation
         IN  Outcome(
                 IF ~animation.null
                 THEN CheckSharedState(SharedState(animation, NoCache, request))
                 ELSE Failure("ParseFailed"),
                 <<LibCall(created)>>,
                 FALSE)

\* The cache-aware Init with the readiness test off by one: a complete cache
\* is taken to need the decode library as well.
InitCachedOffByOne(content, cache, request, initOk, lib) ==
    IF ContentError(content) # NoError
    THEN Outcome(Failure(ContentError(content)), <<>>, FALSE)
    ELSE LET prepare == cache.framesCount = 0
                        \/ cache.framesReady <= cache.framesCount
             created == CreateFromContent(content, initOk, lib)
             animation == IF prepare THEN created.animation ELSE NoAnimation
         IN  Outcome(
                 IF ~prepare \/ ~animation.null
                 THEN CheckSharedState(SharedState(animation, cache, request))
                 ELSE Failure("ParseFailed"),
                 IF prepare THEN <<LibCall(created)>> ELSE <<>>,
                 TRUE)

\* The cache-aware Init that decodes for an empty cache only.
InitCachedEmptyOnly(content, cache, request, initOk, lib) ==
    IF ContentError(content) # NoError
    THEN Outcome(Failure(ContentError(content)), <<>>, FALSE)
    ELSE LET prepare == cache.framesCount = 0
             created == CreateFromContent(content, initOk, lib)
             animation == IF prepare THEN created.animation ELSE NoAnimation
         IN  Outcome(
                 IF ~prepare \/ ~animation.null
                 THEN CheckSharedState(SharedState(animation, cache, request))
                 ELSE Failure("ParseFailed"),
                 IF prepare THEN <<LibCall(created)>> ELSE <<>>,
                 TRUE)

\* Init(content, put, cached, request); cache is the Cache constructed from
\* (cached, request, put).
InitCached(content, cache, request, initOk, lib) ==
    IF ContentError(content) # NoError
    THEN Outcome(Failure(ContentError(content)), <<>>, FALSE)
    ELSE LET prepare == cache.framesCount = 0
                        \/ cache.framesReady < cache.framesCount
             created == CreateFromContent(content, initOk, lib)
             animation == IF prepare THEN created.animation ELSE NoAnimation
         IN  Outcome(
                 IF ~prepare \/ ~animation.null
                 THEN CheckSharedState(SharedState(animation, cache, request))
                 ELSE Failure("ParseFailed"),
                 IF prepare THEN <<LibCall(created)>> ELSE <<>>,
                 TRUE)

(***************************************************************************)
(* The Shared Playback State and the frame renderer, as far as the         *)
(* controller uses them.                                                   *)
(***************************************************************************)
NoState == [null |-> TRUE]

\* The position of frame number index on the animation's time line.
Position(index) == index * FrameDuration

\* SharedState::start(owner, now)
start(state, t) == [state EXCEPT !.started = t]

\* SharedState::nextFrameDisplayTime(): known once the next frame is
\* rendered and waits to be displayed.
nextFrameDisplayTime(state) ==
    IF state.frameReady
    THEN state.started + Position(state.frameIndex)
    ELSE kTimeUnknown

\* SharedState::markFrameDisplayed(now): the waiting frame is displayed at
\* now and its position returned.
stateMarkFrameDisplayed(state, t) ==
    [state |-> [state EXCEPT !.frameReady = FALSE,
                             !.displayed = t,
                             !.frameIndex = @ + 1],
     result |-> Position(state.frameIndex)]

(***************************************************************************)
(* The Animation controller.  A handler is an operator on the "world" of   *)
(* one controller c: w.a the controller's members, w.s the Shared Playback *)
(* State it observes, w.p the renderer pool, w.g the history of c.         *)
(***************************************************************************)
InformationReady(information) ==
    [type |-> "InformationReady", information |-> information]
DisplayFrameRequest(position) ==
    [type |-> "DisplayFrameRequest", position |-> position]
Error(error) == [type |-> "Error", error |-> error]

NoTimer == [active |-> FALSE, deadline |-> kTimeUnknown]

\* Animation::markFrameDisplayed(now)
markFrameDisplayed(w, t) ==
    LET r == stateMarkFrameDisplayed(w.s, t)
    IN  [w |-> [w EXCEPT !.s = r.state,
                         !.g.expects = @ /\ w.a.renderer],
         result |-> r.result]

\* checkNextFrameRender arming the timer without asking whether it is active.
checkNextFrameRenderRearm(w, t) ==
    LET e == [w EXCEPT !.g.expects = @ /\ (w.a.nextFrameTime # kTimeUnknown),
                       !.g.pacing = TRUE]
    IN  IF t < e.a.nextFrameTime
        THEN [e EXCEPT !.a.timer = [active |-> TRUE,
                                    deadline |-> t + (e.a.nextFrameTime - t)],
                       !.g.arms = @ + 1]
        ELSE LET cancelled == [e EXCEPT !.a.timer = NoTimer,
                                        !.a.nextFrameTime = kTimeUnknown,
                                        !.g.arms = 0,
                                        !.g.held = FALSE]
                 m == markFrameDisplayed(cancelled, t)
             IN  [m.w EXCEPT !.a.updates =
                                 Append(@, DisplayFrameRequest(m.result))]

\* checkNextFrameRender displaying the frame without asking whether it is due.
checkNextFrameRenderEager(w, t) ==
    LET e == [w EXCEPT !.g.expects = @ /\ (w.a.nextFrameTime # kTimeUnknown),
                       !.g.pacing = TRUE]
        cancelled == [e EXCEPT !.a.timer = NoTimer,
                               !.a.nextFrameTime = kTimeUnknown,
                               !.g.arms = 0,
                               !.g.held = FALSE]
        m == markFrameDisplayed(cancelled, t)
    IN  [m.w EXCEPT !.a.updates = Append(@, DisplayFrameRequest(m.result))]

\* checkNextFrameRender displaying the frame without cancelling the timer.
checkNextFrameRenderNoCancel(w, t) ==
    LET e == [w EXCEPT !.g.expects = @ /\ (w.a.nextFrameTime # kTimeUnknown),
                       !.g.pacing = TRUE]
    IN  IF t < e.a.nextFrameTime
        THEN IF ~e.a.timer.active
             THEN [e EXCEPT !.a.timer = [active |-> TRUE,
                                         deadline |-> t + (e.a.nextFrameTime - t)],
                            !.g.arms = @ + 1]
             ELSE [e EXCEPT !.g.held = TRUE]
        ELSE LET reset == [e EXCEPT !.a.nextFrameTime = kTimeUnknown,
                                    !.g.arms = 0,
                                    !.g.held = FALSE]
                 m == markFrameDisplayed(reset, t)
             IN  [m.w EXCEPT !.a.updates =
                                 Append(@, DisplayFrameRequest(m.result))]

\* checkNextFrameRender arming the timer only if it is active already.
checkNextFrameRenderNoArm(w, t) ==
    LET e == [w EXCEPT !.g.expects = @ /\ (w.a.nextFrameTime # kTimeUnknown),
                       !.g.pacing = TRUE]
    IN  IF t < e.a.nextFrameTime
        THEN IF e.a.timer.active
             THEN [e EXCEPT !.a.timer = [active |-> TRUE,
                                         deadline |-> t + (e.a.nextFrameTime - t)],
                            !.g.arms = @ + 1]
             ELSE [e EXCEPT !.g.held = TRUE]
        ELSE LET cancelled == [e EXCEPT !.a.timer = NoTimer,
                                        !.a.nextFrameTime = kTimeUnknown,
                                        !.g.arms = 0,
                                        !.g.held = FALSE]
                 m == markFrameDisplayed(cancelled, t)
             IN  [m.w EXCEPT !.a.updates =
                                 Append(@, DisplayFrameRequest(m.result))]

\* Animation::checkNextFrameRender()
checkNextFrameRender(w, t) ==
    LET e == [w EXCEPT !.g.expects = @ /\ (w.a.nextFrameTime # kTimeUnknown),
                       !.g.pacing = TRUE]
    IN  IF t < e.a.nextFrameTime
        THEN IF ~e.a.timer.active
             THEN [e EXCEPT !.a.timer = [active |-> TRUE,
                                         deadline |-> t + (e.a.nextFrameTime - t)],
                            !.g.arms = @ + 1]
             ELSE [e EXCEPT !.g.held = TRUE]
        ELSE LET cancelled == [e EXCEPT !.a.timer = NoTimer,
                                        !.a.nextFrameTime = kTimeUnknown,
                                        !.g.arms = 0,
                                        !.g.held = FALSE]
                 m == markFrameDisplayed(cancelled, t)
             IN  [m.w EXCEPT !.a.updates =
                                 Append(@, DisplayFrameRequest(m.result))]

RECURSIVE checkStep(_, _)

\* checkNextFrameAvailability that stores the due time and leaves the rest
\* to the next tick.
checkNextFrameAvailabilityLazy(w, t) ==
    [w EXCEPT !.g.expects = @ /\ w.a.renderer,
              !.g.pacing = TRUE,
              !.a.nextFrameTime = nextFrameDisplayTime(w.s)]

\* Animation::checkNextFrameAvailability(); direct records whether the due
\* time it found last had been reached already.
checkNextFrameAvailability(w, t) ==
    LET e == [w EXCEPT !.g.expects = @ /\ w.a.renderer,
                       !.g.pacing = TRUE,
                       !.a.nextFrameTime = nextFrameDisplayTime(w.s)]
    IN  IF e.a.nextFrameTime # kTimeUnknown
        THEN checkStep([e EXCEPT !.g.direct = e.a.nextFrameTime <= t], t)
        ELSE e

\* Animation::checkStep()
checkStep(w, t) ==
    IF w.a.nextFrameTime # kTimeUnknown
    THEN checkNextFrameRender(w, t)
    ELSE checkNextFrameAvailability([w EXCEPT !.g.pacing = TRUE], t)

\* What a subscriber of the event stream of c finds when InformationReady
\* reaches it: whether ready() is true, the clock of the state is started,
\* the state is registered in the pool, and the controller is subscribed to
\* the periodic ticks.
Observation(c, w) ==
    [emitted |-> TRUE,
     ready |-> w.a.renderer,
     started |-> IF w.s = NoState THEN FALSE ELSE w.s.started # kTimeUnknown,
     registered |-> c \in w.p,
     subscribed |-> w.a.lifetime]

NoObservation ==
    [emitted |-> FALSE, ready |-> FALSE, started |-> FALSE,
     registered |-> FALSE, subscribed |-> FALSE]

\* _updates.fire({ information }): the subscribers run inside the call.
fireInformation(c, w, information) ==
    [w EXCEPT !.a.updates = Append(@, InformationReady(information)),
              !.g.observed = Observation(c, w)]

\* parseDone that does not fire InformationReady.
parseDoneNoInformation(c, w, state, t) ==
    [w EXCEPT !.a.state = TRUE,
              !.s = start(state, t),
              !.a.renderer = TRUE,
              !.p = @ \cup {c},
              !.a.lifetime = TRUE,
              !.g.parseDone = @ + 1]

\* parseDone that does not keep the reference to the state.
parseDoneNoState(c, w, state, t) ==
    LET registered == [w EXCEPT !.s = start(state, t),
                                !.a.renderer = TRUE,
                                !.p = @ \cup {c}]
        fired == fireInformation(c, registered, state.information)
    IN  [fired EXCEPT !.a.lifetime = TRUE,
                      !.g.parseDone = @ + 1]

\* parseDone that fires InformationReady before it registers the state.
parseDoneFireFirst(c, w, state, t) ==
    LET fired == fireInformation(c, w, state.information)
        assigned == [fired EXCEPT !.a.state = TRUE, !.s = state]
        started == [assigned EXCEPT !.s = start(@, t)]
        registered == [started EXCEPT !.a.renderer = TRUE,
                                      !.p = @ \cup {c}]
    IN  [registered EXCEPT !.a.lifetime = TRUE,
                           !.g.parseDone = @ + 1]

\* Animation::parseDone(state), for controller c, statement by statement:
\* _state is set, the clock started, _renderer set and the state appended to
\* the pool, InformationReady fired, and the ticks subscribed to.
parseDone(c, w, state, t) ==
    LET assigned == [w EXCEPT !.a.state = TRUE, !.s = state]
        started == [assigned EXCEPT !.s = start(@, t)]
        registered == [started EXCEPT !.a.renderer = TRUE,
                                      !.p = @ \cup {c}]
        fired == fireInformation(c, registered, state.information)
    IN  [fired EXCEPT !.a.lifetime = TRUE,
                      !.g.parseDone = @ + 1]

\* Animation::parseFailed(error)
parseFailed(w, error) ==
    [w EXCEPT !.a.updates = Append(@, Error(error)),
              !.g.parseFailed = @ + 1]

\* initDone falling through from the success branch into the failure branch.
initDoneBoth(c, w, data, t) ==
    LET e == [w EXCEPT !.g.initDone = @ + 1]
    IN  IF data.tag = "state"
        THEN parseFailed(parseDone(c, e, data.state, t), "ParseFailed")
        ELSE parseFailed(e, data.error)

\* Animation::initDone(data)
initDone(c, w, data, t) ==
    LET e == [w EXCEPT !.g.initDone = @ + 1]
    IN  IF data.tag = "state"
        THEN parseDone(c, e, data.state, t)
        ELSE parseFailed(e, data.error)

\* The dispatch bound to the raw controller instead of the weak pointer.
guardedUnchecked(c, w, data, t) == initDone(c, w, data, t)

\* The dispatch that loses the callable.
guardedDropped(c, w, data, t) == w

\* crl::on_main(weak, callable), when the main queue reaches it: the
\* callable runs only if the guarded controller is still alive.
guarded(c, w, data, t) ==
    IF w.a.alive THEN initDone(c, w, data, t) ELSE w

\* The destructor that leaves the state in the pool.
destroyNoRemove(c, w) ==
    [w EXCEPT !.a.alive = FALSE,
              !.a.timer = NoTimer,
              !.a.lifetime = FALSE]

\* The last call of frame: the request it was given and whether it notified
\* the pool through updateFrameRequest; toggle changes with every call.
NoFrameCall ==
    [called |-> FALSE, toggle |-> FALSE, request |-> "r0", notified |-> FALSE]

FrameCall(last, request, changed) ==
    [called |-> TRUE, toggle |-> ~last.toggle, request |-> request,
     notified |-> changed]

\* frame that notifies the pool and does not store the request.
frameNoStore(w, request) ==
    LET changed == w.s.request # request
    IN  [w EXCEPT !.g.expects = @ /\ w.a.renderer,
                  !.g.frame = FrameCall(@, request, changed)]

\* Animation::frame(request): the request stored in the frame for paint is
\* compared with the given one and replaced, and the pool notified, if they
\* differ.
frame(w, request) ==
    LET changed == w.s.request # request
    IN  [w EXCEPT !.g.expects = @ /\ w.a.renderer,
                  !.s.request = IF changed THEN request ELSE @,
                  !.g.frame = FrameCall(@, request, changed)]

\* Animation::~Animation(), for controller c; the members (the timer, the
\* lifetime of the tick subscription) are destroyed with it.
destroy(c, w) ==
    LET removed == IF w.a.renderer
                   THEN [w EXCEPT !.g.expects = @ /\ w.a.state,
                                  !.p = @ \ {c},
                                  !.s = NoState]
                   ELSE w
    IN  [removed EXCEPT !.a.alive = FALSE,
                        !.a.timer = NoTimer,
                        !.a.lifetime = FALSE]

(***************************************************************************)
(* The state machine.                                                      *)
(***************************************************************************)
VARIABLES
    now,     \* crl::now()
    task,    \* per controller: the background initialization in flight
    anim,    \* per controller: the members of the Animation
    shared,  \* per controller: the Shared Playback State the pool owns
    pool,    \* FrameRenderer::Instance(): the registered states
    hist,    \* per controller: what has happened so far
    call     \* a single call of an Init overload: arguments and outcome

vars == <<now, task, anim, shared, pool, hist, call>>

\* Contents the controllers are constructed with.
Contents ==
    { <<>>,
      Rep(kMaxFileSize, "a"),
      <<"G", "a", "E">>,
      <<"G">> \o Rep(kMaxFileSize - 1, "D"),
      Rep(kMaxFileSize + 1, "a") }

\* The information of a well-formed document and of one with no frames.
GoodInformation == [frameRate |-> 1, framesCount |-> 1, size |-> <<1, 1>>]
NoFrames == [frameRate |-> 1, framesCount |-> 0, size |-> <<1, 1>>]

\* What the decode library returns to the controllers' workers, and the
\* caches their workers build.
WorkerLibOutcomes ==
    {NoAnimation, Handle(GoodInformation), Handle(NoFrames)}
WorkerCaches ==
    {c \in CacheValues :
        \/ c.framesCount = 0
        \/ c.information = GoodInformation}

NoCall == [pc |-> "none"]

World(c) == [a |-> anim[c], s |-> shared[c], p |-> pool, g |-> hist[c]]

\* The world of c written back.
Becomes(c, w) ==
    /\ anim' = [anim EXCEPT ![c] = w.a]
    /\ shared' = [shared EXCEPT ![c] = w.s]
    /\ pool' = w.p
    /\ hist' = [hist EXCEPT ![c] = w.g]

\* Animation::Animation(content, request): crl::async is scheduled.
ConstructPlain(content, request) ==
    [pc |-> "async", kind |-> "plain", content |-> content, request |-> request]

\* Animation::Animation(get, put, content, request): get is called and
\* holds the callback.
ConstructCached(content, request) ==
    [pc |-> "get", kind |-> "cached", content |-> content, request |-> request]

NewAnimation ==
    [alive |-> TRUE, state |-> FALSE, renderer |-> FALSE,
     nextFrameTime |-> kTimeUnknown, timer |-> NoTimer,
     updates |-> <<>>, lifetime |-> FALSE]

\* The history of a controller: whether its content exceeds kMaxFileSize; how
\* often initDone, parseDone and parseFailed ran; how often its worker ran
\* Init (inits), for a controller destroyed already (stale), called the
\* decode library (libCalls) and whether it built a Cache; whether a pacing step (checkStep, checkNextFrameAvailability,
\* checkNextFrameRender) ever ran; how often the timer was armed for the
\* pending due time (arms) and whether checkNextFrameRender found it armed
\* already (held); whether every Expects and Assert so far held; what the
\* subscribers found when InformationReady was fired (observed); the last
\* call of frame; whether the due time checkNextFrameAvailability found last
\* had been reached already (direct).
NewHistory(content) ==
    [oversize |-> Len(content) > kMaxFileSize,
     initDone |-> 0, parseDone |-> 0, parseFailed |-> 0,
     libCalls |-> 0, cacheBuilt |-> FALSE, inits |-> 0, stale |-> FALSE,
     pacing |-> FALSE, arms |-> 0, held |-> FALSE, expects |-> TRUE,
     observed |-> NoObservation, frame |-> NoFrameCall, direct |-> FALSE]

Init ==
    /\ now = 0
    /\ task \in [Animations ->
                    {ConstructPlain(b, "r0") : b \in Contents}
                    \cup {ConstructCached(b, "r0") : b \in Contents}]
    /\ anim = [c \in Animations |-> NewAnimation]
    /\ shared = [c \in Animations |-> NoState]
    /\ pool = {}
    /\ hist = [c \in Animations |-> NewHistory(task[c].content)]
    /\ call = NoCall

\* The cached bytes arrive: the callback given to get schedules crl::async.
GetDone(c) ==
    /\ task[c].pc = "get"
    /\ task' = [task EXCEPT ![c].pc = "async"]
    /\ UNCHANGED <<now, anim, shared, pool, hist, call>>

\* What the worker computes: the Init overload of the constructor.
RunInit(t, cache, initOk, lib) ==
    IF t.kind = "plain"
    THEN InitPlain(t.content, t.request, initOk, lib)
    ELSE InitCached(t.content, cache, t.request, initOk, lib)

\* The background task testing the weak pointer first: for a destroyed
\* controller it neither runs Init nor hands anything to the main queue.
WorkerChecked(c) ==
    /\ task[c].pc = "async"
    /\ IF anim[c].alive
       THEN \E cache \in WorkerCaches, initOk \in BOOLEAN,
               lib \in WorkerLibOutcomes :
                LET o == RunInit(task[c], cache, initOk, lib)
                IN  /\ task' = [task EXCEPT
                                   ![c] = [pc |-> "on_main", data |-> o.data]]
                    /\ hist' = [hist EXCEPT
                                   ![c].libCalls = @ + Len(o.libCalls),
                                   ![c].cacheBuilt = o.cacheBuilt,
                                   ![c].inits = @ + 1]
       ELSE /\ task' = [task EXCEPT ![c] = [pc |-> "done"]]
            /\ hist' = hist
    /\ UNCHANGED <<now, anim, shared, pool, call>>

\* The background task runs: Init, then crl::on_main(weak, ...) with the
\* result.  The cache is the one built from the bytes get delivered.  The
\* task does not look at the weak pointer; stale records whether the
\* controller was destroyed already when Init ran for it.
Worker(c) ==
    /\ task[c].pc = "async"
    /\ \E cache \in WorkerCaches, initOk \in BOOLEAN, lib \in WorkerLibOutcomes :
         LET o == RunInit(task[c], cache, initOk, lib)
         IN  /\ task' = [task EXCEPT ![c] = [pc |-> "on_main", data |-> o.data]]
             /\ hist' = [hist EXCEPT ![c].libCalls = @ + Len(o.libCalls),
                                     ![c].cacheBuilt = o.cacheBuilt,
                                     ![c].inits = @ + 1,
                                     ![c].stale = ~anim[c].alive]
    /\ UNCHANGED <<now, anim, shared, pool, call>>

\* The main queue reaches the guarded callable.
Dispatch(c) ==
    /\ task[c].pc = "on_main"
    /\ Becomes(c, guarded(c, World(c), task[c].data, now))
    /\ task' = [task EXCEPT ![c] = [pc |-> "done"]]
    /\ UNCHANGED <<now, call>>

\* The owner destroys the controller.
Destroy(c) ==
    /\ anim[c].alive
    /\ Becomes(c, destroy(c, World(c)))
    /\ UNCHANGED <<now, task, call>>

\* The renderer finishes the next frame of a registered state.
RenderFrame(c) ==
    /\ c \in pool
    /\ ~shared[c].frameReady
    /\ shared[c].frameIndex <= MaxFrames
    /\ shared' = [shared EXCEPT ![c].frameReady = TRUE]
    /\ UNCHANGED <<now, task, anim, pool, hist, call>>

\* crl::on_main_update_requests() fires for a subscribed controller.
Tick(c) ==
    /\ anim[c].alive
    /\ anim[c].lifetime
    /\ Becomes(c, checkStep(World(c), now))
    /\ UNCHANGED <<now, task, call>>

\* The one-shot timer of c reaches its deadline and calls back.
TimerFire(c) ==
    /\ anim[c].alive
    /\ anim[c].timer.active
    /\ now >= anim[c].timer.deadline
    /\ Becomes(c, checkNextFrameRender(
                      [World(c) EXCEPT !.a.timer = NoTimer], now))
    /\ UNCHANGED <<now, task, call>>

AdvanceTime ==
    /\ now < MaxTime
    /\ now' = now + 1
    /\ UNCHANGED <<task, anim, shared, pool, hist, call>>

Next ==
    \/ \E c \in Animations :
         \/ GetDone(c)
         \/ Worker(c)
         \/ Dispatch(c)
         \/ Destroy(c)
         \/ RenderFrame(c)
         \/ Tick(c)
         \/ TimerFire(c)
    \/ AdvanceTime

Spec == Init /\ [][Next]_vars

\* The background steps run when they can; the owner may destroy the
\* controller at any time or never, and the clock need not be watched.
FairSpec ==
    /\ Spec
    /\ \A c \in Animations :
         /\ WF_vars(GetDone(c))
         /\ WF_vars(Worker(c))
         /\ WF_vars(Dispatch(c))

\* Controllers constructed with content that fits, one by each constructor.
PacingInit ==
    /\ Init
    /\ task[1] = ConstructPlain(Rep(kMaxFileSize, "a"), "r0")
    /\ task[2] = ConstructCached(<<"G", "a", "E">>, "r0")

\* The clock advances and a timer that has reached its deadline calls back;
\* the ticks may come at any time, and the owner may destroy the controller
\* at any time or never.
PacingFairSpec ==
    /\ PacingInit
    /\ [][Next]_vars
    /\ WF_vars(AdvanceTime)
    /\ \A c \in Animations : WF_vars(TimerFire(c))

\* The owner asks a ready controller for the frame to paint.
Frame(c, request) ==
    /\ anim[c].alive
    /\ anim[c].renderer
    /\ Becomes(c, frame(World(c), request))
    /\ UNCHANGED <<now, task, call>>

\* The life of the controllers with the owner painting them: construction to
\* destruction, and calls of frame.  The clock and the pacing loop, which
\* frame neither reads nor writes, stand still.
NextFrame ==
    \E c \in Animations :
        \/ GetDone(c)
        \/ Worker(c)
        \/ Dispatch(c)
        \/ Destroy(c)
        \/ \E request \in FrameRequests : Frame(c, request)

SpecFrame == Init /\ [][NextFrame]_vars

(***************************************************************************)
(* The Init overloads as functions: one call with arguments drawn from the *)
(* contents, the decode library's outcomes and the caches, and its return. *)
(***************************************************************************)
PlainCalls ==
    [pc : {"called"}, overload : {"plain"}, content : Contents,
     cache : {NoCache}, request : {"r0"}, initOk : BOOLEAN, lib : LibOutcomes]

CachedCalls ==
    [pc : {"called"}, overload : {"cached"}, content : Contents,
     cache : CacheValues, request : {"r0"}, initOk : BOOLEAN, lib : LibOutcomes]

InitCalls ==
    /\ call \in PlainCalls \cup CachedCalls
    /\ now = 0
    /\ task = [c \in Animations |-> [pc |-> "done"]]
    /\ anim = [c \in Animations |-> NewAnimation]
    /\ shared = [c \in Animations |-> NoState]
    /\ pool = {}
    /\ hist = [c \in Animations |-> NewHistory(<<>>)]

Returned(outcome) ==
    /\ call' = [pc |-> "returned", overload |-> call.overload,
                content |-> call.content, cache |-> call.cache,
                request |-> call.request, initOk |-> call.initOk,
                lib |-> call.lib, outcome |-> outcome]
    /\ UNCHANGED <<now, task, anim, shared, pool, hist>>

ReturnPlain ==
    /\ call.pc = "called"
    /\ call.overload = "plain"
    /\ Returned(InitPlain(call.content, call.request, call.initOk, call.lib))

ReturnCached ==
    /\ call.pc = "called"
    /\ call.overload = "cached"
    /\ Returned(InitCached(call.content, call.cache, call.request,
                           call.initOk, call.lib))

NextInit == ReturnPlain \/ ReturnCached

SpecInit == InitCalls /\ [][NextInit]_vars

(***************************************************************************)
(* The content loader as a function: UnpackGzip, and the Init overloads    *)
(* that reach it, called once on any byte sequence that fits the scratch   *)
(* buffer of UnpackGzip.                                                   *)
(***************************************************************************)
AllContents == UNION {[1..n -> Bytes] : n \in 0..(kMaxFileSize + 1)}

UnpackCalls ==
    [pc : {"called"}, overload : {"unpack"}, content : AllContents,
     cache : {NoCache}, request : {"r0"}, initOk : BOOLEAN,
     lib : {NoAnimation}]

\* ReadThumbnail(content) is Init(content, FrameRequest()).
ThumbnailCalls ==
    [pc : {"called"}, overload : {"plain"}, content : AllContents,
     cache : {NoCache}, request : {"r0"}, initOk : BOOLEAN,
     lib : {NoAnimation, Handle(GoodInformation)}]

CachedContentCalls ==
    [pc : {"called"}, overload : {"cached"}, content : AllContents,
     cache : {k \in CacheValues : k.framesCount = 0}, request : {"r0"},
     initOk : BOOLEAN, lib : {NoAnimation, Handle(GoodInformation)}]

GzipCalls ==
    /\ call \in UnpackCalls \cup ThumbnailCalls \cup CachedContentCalls
    /\ now = 0
    /\ task = [c \in Animations |-> [pc |-> "done"]]
    /\ anim = [c \in Animations |-> NewAnimation]
    /\ shared = [c \in Animations |-> NoState]
    /\ pool = {}
    /\ hist = [c \in Animations |-> NewHistory(<<>>)]

ReturnUnpack ==
    /\ call.pc = "called"
    /\ call.overload = "unpack"
    /\ Returned(UnpackGzip(call.content, call.initOk))

NextGzip == ReturnUnpack \/ ReturnPlain \/ ReturnCached

SpecGzip == GzipCalls /\ [][NextGzip]_vars

(***************************************************************************)
(* Properties.                                                             *)
(***************************************************************************)
Last(seq) == seq[Len(seq)]

\* The pool, the state and the counters of initDone, parseDone and
\* parseFailed of c are left as they are.
Untouched(c) ==
    /\ anim'[c] = anim[c]
    /\ shared'[c] = shared[c]
    /\ (c \in pool') = (c \in pool)
    /\ hist'[c].initDone = hist[c].initDone
    /\ hist'[c].parseDone = hist[c].parseDone
    /\ hist'[c].parseFailed = hist[c].parseFailed

\* C1: under every interleaving of the worker, the dispatch on the owning
\* thread and the destruction, initDone runs at most once per controller and
\* no step changes a destroyed controller: its members and event stream stay
\* as they were, initDone does not run for it and no state of it enters the
\* renderer pool.
C1_InitDoneAtMostOnceNeverAfterDestroy ==
    /\ [](\A c \in Animations : hist[c].initDone <= 1)
    /\ [][\A c \in Animations : ~anim[c].alive => Untouched(c)]_vars

\* C1 witness: a controller destroyed before its result was dispatched, the
\* dispatch has happened, and initDone never ran and no event was emitted.
C1_Witness ==
    \E c \in Animations :
        /\ ~anim[c].alive
        /\ task[c].pc = "done"
        /\ hist[c].inits = 1
        /\ hist[c].initDone = 0
        /\ anim[c].updates = <<>>
        /\ c \notin pool

\* C2 as stated: initDone eventually runs, exactly once, for every controller.
C2_InitDoneExactlyOnce ==
    /\ \A c \in Animations : <>(hist[c].initDone = 1)
    /\ [](\A c \in Animations : hist[c].initDone <= 1)

\* C2 amended: for every controller the marshalled result is eventually
\* dispatched; then initDone has run exactly once (one of parseDone and
\* parseFailed) if the controller was alive at the dispatch, and not at all
\* if it was destroyed before.
C2_InitDoneOnceUnlessDestroyed ==
    /\ \A c \in Animations : <>(task[c].pc = "done")
    /\ [](\A c \in Animations :
            /\ hist[c].initDone <= 1
            /\ hist[c].initDone = hist[c].parseDone + hist[c].parseFailed
            /\ task[c].pc = "done" =>
                  \/ hist[c].initDone = 1
                  \/ hist[c].initDone = 0 /\ ~anim[c].alive
            /\ task[c].pc # "done" => hist[c].initDone = 0)

\* C2 witness: the result of a cache-aware controller was dispatched while it
\* was alive and initDone ran once.
C2_Witness ==
    \E c \in Animations :
        /\ task[c].pc = "done"
        /\ anim[c].alive
        /\ hist[c].cacheBuilt
        /\ hist[c].initDone = 1

\* C3: parseDone and parseFailed never both run for one controller, a pacing
\* step runs only after parseDone, and none runs after parseFailed.
C3_ParseExclusivePacingAfterParseDone ==
    \A c \in Animations :
        /\ ~(hist[c].parseDone > 0 /\ hist[c].parseFailed > 0)
        /\ hist[c].pacing => hist[c].parseDone = 1 /\ hist[c].parseFailed = 0
        /\ hist[c].parseFailed > 0 =>
              ~hist[c].pacing /\ ~anim[c].lifetime /\ ~anim[c].timer.active
        /\ hist[c].parseDone = 0 => ~anim[c].lifetime /\ ~anim[c].timer.active

\* C3 witness: one controller has paced after parseDone, for another
\* parseFailed has run.
C3_Witness ==
    \E c, d \in Animations :
        /\ hist[c].pacing
        /\ hist[c].parseDone = 1
        /\ hist[d].parseFailed = 1
        /\ now > 0

\* C4: the states registered in the pool are exactly those of the controllers
\* for which parseDone ran and which are not destroyed: destruction removes
\* the state of the destroyed controller, and only that.
C4_PoolHoldsLiveOwnersOnly ==
    /\ pool = {c \in Animations : hist[c].parseDone > 0 /\ anim[c].alive}
    /\ \A c \in Animations : (c \in pool) = (shared[c] # NoState)

\* C4 witness: a controller with a registered state was destroyed and the
\* other controller's state is still registered.
C4_Witness ==
    \E c, d \in Animations :
        /\ ~anim[c].alive
        /\ hist[c].parseDone = 1
        /\ c \notin pool
        /\ d \in pool

\* C5: content larger than kMaxFileSize: Init calls no decode library and
\* builds no Cache, its result is ParseFailed, and the controller emits
\* nothing but the error ParseFailed, which it has emitted once initDone ran.
C5_OversizeIsParseFailed ==
    \A c \in Animations :
        hist[c].oversize =>
            /\ hist[c].libCalls = 0
            /\ ~hist[c].cacheBuilt
            /\ task[c].pc = "on_main" => task[c].data = Failure("ParseFailed")
            /\ anim[c].updates \in {<<>>, <<Error("ParseFailed")>>}
            /\ hist[c].initDone = 1 => anim[c].updates = <<Error("ParseFailed")>>
            /\ hist[c].parseDone = 0
            /\ ~anim[c].renderer

\* C5 witness: a cache-aware controller with oversized content has emitted
\* ParseFailed.
C5_Witness ==
    \E c \in Animations :
        /\ hist[c].oversize
        /\ hist[c].inits = 1
        /\ hist[c].initDone = 1
        /\ anim[c].updates = <<Error("ParseFailed")>>

NeedsDecode(cache) ==
    cache.framesCount = 0 \/ cache.framesReady < cache.framesCount

Valid(information) ==
    /\ information.frameRate > 0
    /\ information.framesCount > 0
    /\ ~isEmpty(information.size)

\* C6: whenever an Init overload has built a state whose metadata is not
\* (frameRate > 0, framesCount > 0, size non-empty) it returns NotSupported,
\* so the state it returns for parseDone has valid metadata.
C6_InvalidMetadataNotSupported ==
    call.pc = "returned" =>
        /\ call.outcome.data.tag = "state" =>
              Valid(call.outcome.data.state.information)
        /\ (/\ Len(call.content) <= kMaxFileSize
            /\ ~call.lib.null
            /\ call.overload = "cached" => NeedsDecode(call.cache)
            /\ ~Valid(call.lib.information)) =>
              call.outcome.data = Failure("NotSupported")

Complete(cache) ==
    cache.framesCount > 0 /\ cache.framesReady = cache.framesCount

\* C7: the cache-aware Init with a complete cache makes no call of the decode
\* library; for content within the size limit the state is built with the
\* cache and without a parsed handle, its information is the cache's, and
\* the result is that state if the information is valid (NotSupported if
\* not).
C7_CompleteCacheSkipsDecode ==
    (call.pc = "returned" /\ call.overload = "cached" /\ Complete(call.cache)) =>
        /\ call.outcome.libCalls = <<>>
        /\ Len(call.content) <= kMaxFileSize =>
              /\ call.outcome.cacheBuilt
              /\ call.outcome.data =
                    IF Valid(call.cache.information)
                    THEN Success(SharedState(NoAnimation, call.cache, call.request))
                    ELSE call.outcome.data
              /\ call.outcome.data.tag = "state" =>
                    /\ ~call.outcome.data.state.animation
                    /\ call.outcome.data.state.cache
                    /\ call.outcome.data.state.information = call.cache.information
              /\ call.outcome.data.tag = "error" =>
                    /\ call.outcome.data.error = "NotSupported"
                    /\ ~Valid(call.cache.information)

\* C7 witness: a complete cache with valid information, a decode library
\* that would have failed, and Init returned the state.
C7_Witness ==
    /\ call.pc = "returned"
    /\ call.overload = "cached"
    /\ Complete(call.cache)
    /\ call.lib.null
    /\ call.outcome.data.tag = "state"
    /\ call.outcome.libCalls = <<>>

\* C8 as stated: the cache-aware Init with an empty or partial cache calls
\* the decode library, whatever the content, and returns ParseFailed if the
\* library returns no handle.
C8_IncompleteCacheDecodesAnyContent ==
    (call.pc = "returned" /\ call.overload = "cached" /\ NeedsDecode(call.cache)) =>
        /\ Len(call.outcome.libCalls) = 1
        /\ call.lib.null => call.outcome.data = Failure("ParseFailed")

\* C8 amended: the cache-aware Init with an empty or partial cache and a
\* content of at most kMaxFileSize bytes calls the decode library exactly
\* once, and returns ParseFailed if the library returns no handle.
C8_IncompleteCacheDecodes ==
    (/\ call.pc = "returned"
     /\ call.overload = "cached"
     /\ NeedsDecode(call.cache)
     /\ Len(call.content) <= kMaxFileSize) =>
        /\ Len(call.outcome.libCalls) = 1
        /\ call.outcome.libCalls[1].string = UnpackGzip(call.content, call.initOk)
        /\ call.lib.null => call.outcome.data = Failure("ParseFailed")

\* C8 witness: a partial cache, content within the limit, the decode library
\* was called and returned no handle, and Init returned ParseFailed.
C8_Witness ==
    /\ call.pc = "returned"
    /\ call.overload = "cached"
    /\ call.cache.framesCount > 0
    /\ call.cache.framesReady < call.cache.framesCount
    /\ Len(call.content) <= kMaxFileSize
    /\ call.lib.null
    /\ Len(call.outcome.libCalls) = 1
    /\ call.outcome.data = Failure("ParseFailed")

\* C9: the timer is armed at most once for one pending due time: while
\* nextFrameTime is known and its frame not displayed, callOnce has run at
\* most once, and an active timer is the one armed for that due time.
C9_TimerArmedOncePerDueTime ==
    \A c \in Animations :
        /\ hist[c].arms <= 1
        /\ anim[c].timer.active =>
              /\ hist[c].arms = 1
              /\ anim[c].nextFrameTime # kTimeUnknown
        /\ hist[c].held => hist[c].arms = 1

\* C9 witness: checkNextFrameRender ran while the timer was armed and the
\* frame not yet due, and the timer is still armed once.
C9_Witness ==
    \E c \in Animations :
        /\ anim[c].timer.active
        /\ hist[c].held
        /\ hist[c].arms = 1
        /\ now < anim[c].nextFrameTime

\* The step emits a DisplayFrameRequest on the event stream of c.
EmitsDisplay(c) ==
    /\ anim'[c].updates # anim[c].updates
    /\ Last(anim'[c].updates).type = "DisplayFrameRequest"

\* The due time checkNextFrameRender finds when it runs for c in this step:
\* nextFrameTime if it is known, and otherwise what
\* checkNextFrameAvailability has just stored in it.
DueTime(c) ==
    IF anim[c].nextFrameTime # kTimeUnknown
    THEN anim[c].nextFrameTime
    ELSE nextFrameDisplayTime(shared[c])

\* C10: a DisplayFrameRequest is emitted only by a step in which
\* checkNextFrameRender runs with nextFrameTime known and now >=
\* nextFrameTime; the step leaves the timer cancelled and nextFrameTime
\* unknown, has the state record the display at now, and the event it
\* appends carries the position the state returned, which is at most now.
C10_DisplayOnlyWhenDue ==
    [][\A c \in Animations :
          EmitsDisplay(c) =>
              /\ hist'[c].pacing
              /\ DueTime(c) # kTimeUnknown
              /\ now >= DueTime(c)
              /\ ~anim'[c].timer.active
              /\ anim'[c].nextFrameTime = kTimeUnknown
              /\ shared'[c] = stateMarkFrameDisplayed(shared[c], now).state
              /\ shared'[c].displayed = now
              /\ anim'[c].updates =
                    Append(anim[c].updates,
                           DisplayFrameRequest(
                               stateMarkFrameDisplayed(shared[c], now).result))
              /\ Last(anim'[c].updates).position <= now]_vars

\* C10 witness: a DisplayFrameRequest was emitted after the timer had been
\* found armed, at the time the frame was due.
C10_Witness ==
    \E c \in Animations :
        /\ Len(anim[c].updates) >= 2
        /\ Last(anim[c].updates).type = "DisplayFrameRequest"
        /\ Last(anim[c].updates).position <= now
        /\ shared[c] # NoState
        /\ shared[c].displayed = now
        /\ shared[c].displayed = shared[c].started + Last(anim[c].updates).position

\* The indices of the events of the given type in a stream of events.
EventsOf(updates, type) ==
    {i \in 1..Len(updates) : updates[i].type = type}

\* C11: on the event stream of every controller the first event is
\* InformationReady or a terminal Error, InformationReady occurs at most
\* once, every DisplayFrameRequest comes after InformationReady, and after
\* an Error there is no further event and the controller is never ready.
C11_EventStreamOrder ==
    \A c \in Animations :
        LET updates == anim[c].updates
        IN  /\ Len(updates) >= 1 =>
                  updates[1].type \in {"InformationReady", "Error"}
            /\ Cardinality(EventsOf(updates, "InformationReady")) <= 1
            /\ \A i \in EventsOf(updates, "DisplayFrameRequest") :
                  \E j \in EventsOf(updates, "InformationReady") : j < i
            /\ \A i \in EventsOf(updates, "Error") :
                  /\ i = Len(updates)
                  /\ ~anim[c].renderer
                  /\ ~anim[c].lifetime
                  /\ hist[c].parseDone = 0

\* C11 witness: one controller has emitted InformationReady and then two
\* DisplayFrameRequests, the other a terminal Error and nothing since, long
\* after its initialization.
C11_Witness ==
    \E c, d \in Animations :
        /\ Len(anim[c].updates) = 3
        /\ anim[c].updates[1].type = "InformationReady"
        /\ anim[c].updates[2].type = "DisplayFrameRequest"
        /\ anim[c].updates[3].type = "DisplayFrameRequest"
        /\ Len(anim[d].updates) = 1
        /\ anim[d].updates[1].type = "Error"
        /\ task[d].pc = "done"
        /\ now = MaxTime

\* The gzip format of the model: the header, codes, and the trailer; bytes
\* after the trailer are not part of the stream.
Trailers(bytes) == {n \in 2..Len(bytes) : bytes[n] = "E"}

IsGzip(bytes) ==
    /\ Len(bytes) >= 2
    /\ bytes[1] = "G"
    /\ \E n \in Trailers(bytes) : \A i \in 2..(n - 1) : bytes[i] \in {"a", "D"}

\* The bytes a gzip stream was made from: one per stored byte and two per
\* back-reference before the trailer.
Original(bytes) ==
    LET n == CHOOSE m \in Trailers(bytes) : \A k \in Trailers(bytes) : m <= k
    IN  Rep(Cardinality({i \in 2..(n - 1) : bytes[i] = "a"})
              + 2 * Cardinality({i \in 2..(n - 1) : bytes[i] = "D"}), "a")

\* C12 as stated: UnpackGzip returns the original bytes of a valid gzip
\* input whose decompressed size is within kMaxFileSize, and returns its
\* input unchanged for every other input: on a failure of the stream
\* initialisation, for input that is no gzip stream or a truncated one, and
\* when the output fills the scratch buffer.
C12_UnpackRoundTripOrInput ==
    (call.pc = "returned" /\ call.overload = "unpack") =>
        IF /\ call.initOk
           /\ IsGzip(call.content)
           /\ Len(Original(call.content)) <= kMaxFileSize
        THEN call.outcome = Original(call.content)
        ELSE call.outcome = call.content

C14_FrameNotifiesOnChange ==
    [][\A c \in Animations :
          hist'[c].frame.toggle # hist[c].frame.toggle =>
              LET request == hist'[c].frame.request
                  changed == shared[c].request # request
              IN  /\ anim[c].renderer
                  /\ hist'[c].frame.notified = changed
                  /\ shared'[c].request = request
                  /\ ~changed => shared'[c] = shared[c]
                  /\ hist[c].frame.called =>
                        hist'[c].frame.notified
                            = (hist[c].frame.request # request)
                  /\ hist'[c].expects
                  /\ anim'[c] = anim[c]
                  /\ pool' = pool]_vars

\* C14 witness: after a call that changed the stored request the same
\* request was asked for again, and the pool was not notified a second time.
C14_Witness ==
    \E c \in Animations :
        /\ hist[c].frame.called
        /\ hist[c].frame.toggle = FALSE
        /\ hist[c].frame.request = "r1"
        /\ ~hist[c].frame.notified
        /\ shared[c].request = "r1"

\* C15: a tick that finds nextFrameTime unknown asks the state for the next
\* due time.  If that is known and at most now, the same tick emits the
\* DisplayFrameRequest and ends with nextFrameTime unknown and no timer
\* armed; if it is in the future, the same tick stores it and arms the timer
\* for it; if the state reports it unknown, the tick changes nothing.
C15_TickActsOnDueTimeAtOnce ==
    [][\A c \in Animations :
          (Tick(c) /\ anim[c].nextFrameTime = kTimeUnknown) =>
              LET due == nextFrameDisplayTime(shared[c])
              IN  /\ (due # kTimeUnknown /\ due <= now) =>
                        /\ EmitsDisplay(c)
                        /\ Len(anim'[c].updates) = Len(anim[c].updates) + 1
                        /\ anim'[c].nextFrameTime = kTimeUnknown
                        /\ ~anim'[c].timer.active
                  /\ (due # kTimeUnknown /\ due > now) =>
                        /\ anim'[c].updates = anim[c].updates
                        /\ anim'[c].nextFrameTime = due
                        /\ anim'[c].timer = [active |-> TRUE, deadline |-> due]
                        /\ shared'[c] = shared[c]
                  /\ due = kTimeUnknown =>
                        /\ anim'[c] = anim[c]
                        /\ shared'[c] = shared[c]
                        /\ pool' = pool]_vars

\* C15 witness: one controller displayed a frame in the tick that found it
\* due, and for the other a tick armed the timer for a due time in the
\* future after an earlier tick had found no due time.
C15_Witness ==
    \E c, d \in Animations :
        /\ hist[c].direct
        /\ anim[c].nextFrameTime = kTimeUnknown
        /\ ~anim[c].timer.active
        /\ Len(anim[c].updates) >= 2
        /\ ~hist[d].direct
        /\ anim[d].timer.active
        /\ anim[d].timer.deadline > now
        /\ hist[d].arms = 1

\* C17: whenever the timer of a controller is active, nextFrameTime is
\* known and is the deadline of the timer; and the precondition of
\* checkNextFrameRender, nextFrameTime known, has held at every entry, from
\* the timer callback and from checkStep.
C17_ActiveTimerMeansKnownDueTime ==
    \A c \in Animations :
        /\ anim[c].timer.active =>
              /\ anim[c].nextFrameTime # kTimeUnknown
              /\ anim[c].timer.deadline = anim[c].nextFrameTime
        /\ hist[c].expects

\* C17 witness: after a first frame was displayed the timer is armed for the
\* second, its deadline is reached and its callback is about to enter
\* checkNextFrameRender, which a tick has entered meanwhile as well.
C17_Witness ==
    \E c \in Animations :
        /\ anim[c].timer.active
        /\ anim[c].timer.deadline = anim[c].nextFrameTime
        /\ now >= anim[c].timer.deadline
        /\ hist[c].held
        /\ Len(anim[c].updates) >= 2
        /\ hist[c].expects

\* The pacing loop of c waits for a due time the clock of the model reaches.
Waiting(c) ==
    /\ anim[c].alive
    /\ anim[c].renderer
    /\ anim[c].nextFrameTime # kTimeUnknown
    /\ anim[c].nextFrameTime <= MaxTime

\* The pacing loop of c is idle after a display.
Displayed(c) ==
    /\ anim[c].nextFrameTime = kTimeUnknown
    /\ ~anim[c].timer.active
    /\ Len(anim[c].updates) >= 1
    /\ Last(anim[c].updates).type = "DisplayFrameRequest"

\* C16: in a ready controller that is not destroyed, a known nextFrameTime
\* always has both an armed timer and the tick subscription to handle it,
\* and, the clock advancing and the timer callbacks being scheduled fairly
\* (with or without fair ticks), whenever nextFrameTime is known a DisplayFrameRequest
\* is eventually emitted and the pacing loop is idle again, with
\* nextFrameTime unknown and the timer inactive: the wait for a known due
\* time always ends, and it ends only with the display or with the
\* destruction of the controller.
C16_KnownDueTimeIsDisplayed ==
    /\ [](\A c \in Animations :
             (anim[c].alive /\ anim[c].nextFrameTime # kTimeUnknown) =>
                 /\ anim[c].timer.active
                 /\ anim[c].lifetime)
    /\ \A c \in Animations : []<>(~Waiting(c))
    /\ [][\A c \in Animations :
            (Waiting(c) /\ anim'[c].nextFrameTime = kTimeUnknown) =>
                \/ ~anim'[c].alive
                \/ /\ EmitsDisplay(c)
                   /\ ~anim'[c].timer.active]_vars

\* C16 witness: a controller that is alive to the end displayed its second
\* frame, for which the timer had been armed, when the clock reached the due
\* time, and is idle.
C16_Witness ==
    \E c \in Animations :
        /\ anim[c].alive
        /\ Displayed(c)
        /\ ~hist[c].direct
        /\ Len(anim[c].updates) = 3
        /\ shared[c].displayed = shared[c].started + Position(2)
        /\ now = MaxTime

\* C18: the assertion of CreateFromContent, that the unpacked string is at
\* most kMaxFileSize bytes, holds at every call made through either Init
\* overload (ReadThumbnail calls the plain one): UnpackGzip returns at most
\* kMaxFileSize bytes for a content of at most kMaxFileSize bytes, and
\* CreateFromContent is not reached with a larger content.
C18_SizeAssertionHolds ==
    call.pc = "returned" =>
        IF call.overload = "unpack"
        THEN Len(call.content) <= kMaxFileSize =>
                 Len(call.outcome) <= kMaxFileSize
        ELSE /\ \A i \in 1..Len(call.outcome.libCalls) :
                   /\ call.outcome.libCalls[i].assertion
                   /\ Len(call.outcome.libCalls[i].string) <= kMaxFileSize
             /\ Len(call.content) > kMaxFileSize =>
                   call.outcome.libCalls = <<>>

\* C18 witness: Init was called with a gzip stream of kMaxFileSize bytes
\* that inflates to more than kMaxFileSize bytes; the output filled the
\* scratch buffer, the stream itself went to the decode library, and the
\* assertion held.
C18_Witness ==
    /\ call.pc = "returned"
    /\ call.overload = "plain"
    /\ call.initOk
    /\ call.content = <<"G">> \o Rep(kMaxFileSize - 1, "D")
    /\ Len(call.outcome.libCalls) = 1
    /\ call.outcome.libCalls[1].string = call.content
    /\ call.outcome.libCalls[1].assertion

\* C19: the renderer reference of a controller is set exactly if parseDone
\* has run for it, and whenever it is set the reference to the state is set
\* too, so the assertion of the destructor holds; ready() is false before
\* initDone runs and after parseFailed, and once true it stays true as long
\* as the controller is not destroyed.
C19_RendererSetExactlyByParseDone ==
    /\ [](\A c \in Animations :
             /\ anim[c].renderer <=> hist[c].parseDone = 1
             /\ anim[c].renderer => anim[c].state
             /\ (anim[c].renderer /\ anim[c].alive) =>
                   (shared[c] # NoState /\ c \in pool)
             /\ hist[c].initDone = 0 => ~anim[c].renderer
             /\ hist[c].parseFailed = 1 => ~anim[c].renderer
             /\ hist[c].expects)
    /\ [][\A c \in Animations :
            (anim[c].renderer /\ anim'[c].alive) => anim'[c].renderer]_vars

\* C19 witness: one controller became ready and was destroyed, its
\* destructor found the state reference set and removed the state from the
\* pool; the other failed to parse, is alive and is not ready.
C19_Witness ==
    \E c, d \in Animations :
        /\ anim[c].renderer
        /\ anim[c].state
        /\ ~anim[c].alive
        /\ hist[c].expects
        /\ c \notin pool
        /\ hist[d].parseFailed = 1
        /\ anim[d].alive
        /\ ~anim[d].renderer

\* C20: when InformationReady is emitted the clock of the state is started
\* and the state is registered with the pool, so ready() is true and a
\* subscriber that calls frame, markFrameDisplayed or markFrameShown from
\* its handler of InformationReady meets their precondition; the tick
\* subscription is installed only after the event was emitted.
C20_ReadyBeforeInformationReady ==
    \A c \in Animations :
        /\ hist[c].observed.emitted <=> hist[c].parseDone = 1
        /\ hist[c].observed.emitted =>
              /\ hist[c].observed.ready
              /\ hist[c].observed.started
              /\ hist[c].observed.registered
              /\ ~hist[c].observed.subscribed
              /\ Len(anim[c].updates) >= 1
              /\ anim[c].updates[1].type = "InformationReady"
        /\ (hist[c].observed.emitted /\ anim[c].alive) => anim[c].lifetime

\* C20 witness: a controller emitted InformationReady when it was ready and
\* not subscribed to the ticks yet, and is subscribed since: a tick has run
\* its pacing loop.
C20_Witness ==
    \E c \in Animations :
        /\ hist[c].observed.emitted
        /\ hist[c].observed.ready
        /\ hist[c].observed.registered
        /\ ~hist[c].observed.subscribed
        /\ anim[c].alive
        /\ anim[c].lifetime
        /\ hist[c].pacing

====
